---------------------------- MODULE Spec2Model ----------------------------
(***************************************************************************)
(* A model of aliot's AliotObj (src/aliot/aliot_obj.py): the registries,   *)
(* the two lifecycle-hook slots, the connection flags and the websocket    *)
(* callbacks.                                                              *)
(*                                                                         *)
(* Every operation (a registration, run(), stop(), a public send, a        *)
(* websocket callback) is one atomic action.  While it runs it works on a  *)
(* context record c holding the fields it may write and a trace of what it *)
(* did (messages written, handlers invoked, closes issued, threads         *)
(* started, the exception that escaped it).  The action then stores the    *)
(* fields back and leaves the trace in `step`; Return ends the operation   *)
(* and discards the trace.                                                 *)
(*                                                                         *)
(* The websocket (websocket-client's WebSocketApp) is modelled by `ws`:    *)
(*   "none"        self.__ws is None (never run)                           *)
(*   "connecting"  run() built the app, on_open has not been called        *)
(*   "open"        the socket is open                                      *)
(*   "closing"     close() was called locally (the socket is gone), the    *)
(*                 on_close callback has not run yet                       *)
(*   "closed"      on_close has run, run_forever() has returned            *)
(* WebSocketApp.send raises WebSocketConnectionClosedException when the    *)
(* socket is gone; WebSocketApp.close is idempotent; an exception that     *)
(* escapes a callback is caught and logged by the websocket loop.          *)
(*                                                                         *)
(* The write-only diagnostic counter self.__repeats is not stored: it      *)
(* always equals the number of messages written so far.                    *)
(***************************************************************************)
EXTENDS Integers, Sequences, FiniteSets, TLC

VARIABLES
    protocols,               \* self.__protocols: the registered action ids
    listeners,               \* self.__listeners: sequence of field lists
    broadcast_listener,      \* self.__broadcast_listener: set or not
    on_start,                \* self.__on_start: the on-start slot
    on_end,                  \* self.__on_end: the on-end slot
    connected_to_alivecode,  \* self.__connected_to_alivecode (logical flag)
    connected,               \* self.__connected (physical flag)
    listeners_set,           \* self.__listeners_set (subscribe-ack counter)
    ws,                      \* the WebSocketApp behind self.__ws
    runs,                    \* history: number of run() calls so far
    acks,                    \* history: SUBSCRIBE_LISTENER_SUCCESS messages
                             \* received on the current connection
    launches,                \* history: on-start threads started on the
                             \* current connection
    step                     \* trace of the operation that just ran

vars == <<protocols, listeners, broadcast_listener, on_start, on_end,
          connected_to_alivecode, connected, listeners_set, ws, runs, acks,
          launches, step>>

registries == <<protocols, listeners, broadcast_listener>>
hooks == <<on_start, on_end>>
history == <<runs, acks, launches>>

-----------------------------------------------------------------------------
(* Bounds of the model *)

MaxListeners == 2
MaxRuns == 2
MaxBatch == 2
MaxAcks == 3
MaxLaunches == 2

(* Small input domains *)

\* field names; an integer stands for a string, < for string order
Fields == {1, 2, 3}
\* the field lists given to listen(): unsorted, overlapping, with a repeat
ListenInputs == {<<2, 1>>, <<3, 2, 3>>}
ListenValues == {0, 1}
\* action id 1 can be registered, action id 2 never is
RegisterableIds == {1}
ActionValues == {7, 8}
\* the records of a RECEIVE_ACTION payload: well-formed ones, one without a
\* value key, one without an id key
Records == {[id |-> 1, value |-> 7], [id |-> 1, value |-> 8],
            [id |-> 2, value |-> 7], [id |-> 2], [value |-> 7]}
\* callbacks with their bound arguments, as given to on_start()/on_end()
HookInputs == {[f |-> "f", args |-> <<>>, kwargs |-> <<>>],
               [f |-> "g", args |-> <<1>>, kwargs |-> <<>>]}
MainLoopInputs == {"f"}

-----------------------------------------------------------------------------
(* Values *)

NoExc == "none"

\* the slot of a lifecycle hook: None, a (callback, args, kwargs) triple, or
\* the bare wrapper function main_loop() stores
NoHook == [kind |-> "None"]
Triple(h) == [kind |-> "triple", f |-> h.f, args |-> h.args, kwargs |-> h.kwargs]
WrapperFunction(f) == [kind |-> "function", f |-> f]

Msg(event, data) == [event |-> event, data |-> data]
NoData == [none |-> TRUE]

\* Python's None, as a returned value
None == [kind |-> "None"]

NoStep == [op |-> "idle", arg |-> Msg("none", NoData), attempts |-> <<>>,
           sent |-> <<>>, calls |-> <<>>, closes |-> <<>>, sets |-> <<>>, launched |-> <<>>,
           log |-> <<>>, raised |-> NoExc, ret |-> None]

Range(s) == {s[i] : i \in DOMAIN s}

\* the context an operation starts with
Ctx(op, arg) ==
    [connected |-> connected, live |-> connected_to_alivecode, ws |-> ws,
     lset |-> listeners_set, op |-> op, arg |-> arg, attempts |-> <<>>,
     sent |-> <<>>,
     calls |-> <<>>, closes |-> <<>>, sets |-> <<>>, launched |-> <<>>,
     log |-> <<>>, raised |-> NoExc, ret |-> None]

Trace(c) ==
    [op |-> c.op, arg |-> c.arg, attempts |-> c.attempts, sent |-> c.sent,
     calls |-> c.calls,
     closes |-> c.closes, sets |-> c.sets, launched |-> c.launched,
     log |-> c.log, raised |-> c.raised, ret |-> c.ret]

\* a call of user code, with the flags it can observe when it starts
Call(c, kind, who, arg) ==
    [c EXCEPT !.calls = Append(@, [kind |-> kind, who |-> who, arg |-> arg,
                                   connected |-> c.connected, live |-> c.live])]

Log(c, tag) ==
    IF c.raised # NoExc THEN c ELSE [c EXCEPT !.log = Append(@, tag)]

Raise(c, exc) == [c EXCEPT !.raised = exc]

\* a return statement
ReturnValue(c, v) == IF c.raised # NoExc THEN c ELSE [c EXCEPT !.ret = v]

-----------------------------------------------------------------------------
(* The websocket *)

\* WebSocketApp.send(data)
\* the last attempt of the trace wrote its message to the socket
Written(c, m) ==
    [c EXCEPT !.sent = Append(@, m), !.attempts[Len(c.attempts)].wrote = TRUE]

WsSend(c, m) ==
    IF c.ws = "open"
    THEN Written(c, m)
    ELSE Raise(c, "WebSocketConnectionClosedException")

\* WebSocketApp.send(data) called by one thread while another thread is
\* inside WebSocketApp.close(): the two calls are not synchronised, and the
\* frame is written or the send fails
WsSendDuringClose(c, m, written) ==
    IF written
    THEN Written(c, m)
    ELSE Raise(c, "WebSocketConnectionClosedException")

\* WebSocketApp.close(), called from `by`
WsClose(c, by) ==
    [c EXCEPT !.closes = Append(@, [by |-> by, ws |-> c.ws]),
              !.ws = IF @ = "open" THEN "closing" ELSE @]

-----------------------------------------------------------------------------
(* Private methods *)

\* faulty variant: the setter stores the flag and never closes the connection
ConnectedToAlivecodeSetter_NoClose(c, value) ==
    IF c.raised # NoExc THEN c
    ELSE [c EXCEPT !.live = value,
                   !.sets = Append(@, [value |-> value, ws |-> c.ws,
                                       connected |-> c.connected])]

\* the setter of the connected_to_alivecode property
ConnectedToAlivecodeSetter(c, value) ==
    IF c.raised # NoExc THEN c
    ELSE LET c1 == [c EXCEPT !.live = value,
                             !.sets = Append(@, [value |-> value, ws |-> c.ws,
                                                 connected |-> c.connected])]
         IN  IF ~value /\ c1.connected THEN WsClose(c1, "setter") ELSE c1

\* a call of __send_event, with the state of the socket when it is made
Attempt(c, event) ==
    [c EXCEPT !.attempts = Append(@, [event |-> event, ws |-> c.ws,
                                      connected |-> c.connected,
                                      wrote |-> FALSE])]

\* faulty variant: __send_event tests the logical flag instead of the physical one
SendEvent_IfLive(c, event, data) ==
    IF c.raised # NoExc THEN c
    ELSE IF c.live THEN WsSend(Attempt(c, event), Msg(event, data))
    ELSE Attempt(c, event)

\* __send_event
SendEvent(c, event, data) ==
    IF c.raised # NoExc THEN c
    ELSE IF c.connected THEN WsSend(Attempt(c, event), Msg(event, data))
    ELSE Attempt(c, event)

\* __send_event, called while another thread is inside close()
SendEventDuringClose(c, event, data, written) ==
    IF c.raised # NoExc THEN c
    ELSE IF c.connected
         THEN WsSendDuringClose(Attempt(c, event), Msg(event, data), written)
    ELSE Attempt(c, event)

\* the user's function behind an action handler
UserAction(id, value) == 10 * id + value

\* the wrapper on_recv() stores in the registry
ProtocolWrapper(c, id, value) ==
    LET c1 == Call(Log(c, "protocol_called"), "action", id, value)
    IN  SendEvent(c1, "SEND_ACTION_DONE",
                  [actionId |-> id, value |-> UserAction(id, value)])

\* faulty variant: an unknown id calls the setter without testing the flag first
ExecuteProtocolRecord_AlwaysSet(c, msg) ==
    IF c.raised # NoExc THEN c
    ELSE IF ~({"id", "value"} \subseteq DOMAIN msg)
    THEN Log(c, "invalid_structure")
    ELSE IF msg.id \notin protocols
    THEN Log(Log(ConnectedToAlivecodeSetter(c, FALSE), "not_implemented"),
             "connection_closed")
    ELSE ProtocolWrapper(c, msg.id, msg.value)

\* one record of __execute_protocol (msg is a dict)
ExecuteProtocolRecord(c, msg) ==
    IF c.raised # NoExc THEN c
    ELSE IF ~({"id", "value"} \subseteq DOMAIN msg)
    THEN Log(c, "invalid_structure")
    ELSE IF msg.id \notin protocols
    THEN LET c1 == IF c.live THEN ConnectedToAlivecodeSetter(c, FALSE) ELSE c
         IN  Log(Log(c1, "not_implemented"), "connection_closed")
    ELSE ProtocolWrapper(c, msg.id, msg.value)

RECURSIVE ExecuteProtocolItems(_, _)
ExecuteProtocolItems(c, items) ==
    IF items = <<>> THEN c
    ELSE ExecuteProtocolItems(ExecuteProtocolRecord(c, Head(items)), Tail(items))

\* __execute_protocol: a list is walked and then falls through to the key
\* check, which a list of records fails
ExecuteProtocol(c, payload) ==
    IF payload.kind = "list"
    THEN Log(ExecuteProtocolItems(c, payload.items), "invalid_structure")
    ELSE ExecuteProtocolRecord(c, payload.rec)

\* faulty variant: the payload is handed over unfiltered
FieldsToReturn_All(fields, l) == fields

\* {field: value for field, value in fields.items() if field in l}
FieldsToReturn(fields, l) ==
    [k \in (DOMAIN fields) \cap Range(l) |-> fields[k]]

RECURSIVE ExecuteListenFrom(_, _, _)
ExecuteListenFrom(c, fields, i) ==
    IF i > Len(listeners) \/ c.raised # NoExc THEN c
    ELSE LET ftr == FieldsToReturn(fields, listeners[i])
             c1 == IF DOMAIN ftr # {} THEN Call(c, "listener", i, ftr) ELSE c
         IN  ExecuteListenFrom(c1, fields, i + 1)

\* __execute_listen
ExecuteListen(c, fields) == ExecuteListenFrom(c, fields, 1)

\* __execute_broadcast
ExecuteBroadcast(c, data) ==
    IF c.raised # NoExc THEN c
    ELSE IF broadcast_listener THEN Call(c, "broadcast", 0, data) ELSE c

RECURSIVE SortedSeq(_)
\* sorted(S) of a set of field names
SortedSeq(S) ==
    IF S = {} THEN <<>>
    ELSE LET m == CHOOSE x \in S : \A y \in S : x <= y
         IN  <<m>> \o SortedSeq(S \ {m})

\* sorted(set([field for l in self.listeners for field in l['fields']]))
SubscribeFields ==
    SortedSeq(UNION {Range(listeners[i]) : i \in DOMAIN listeners})

\* self.__on_start and Thread(target=self.__on_start[0], ...).start()
LaunchOnStart(c) ==
    IF c.raised # NoExc \/ on_start.kind = "None" THEN c
    ELSE IF on_start.kind = "function" THEN Raise(c, "TypeError")
    ELSE [c EXCEPT !.launched = Append(@, [f |-> on_start.f,
                                           args |-> on_start.args,
                                           kwargs |-> on_start.kwargs,
                                           live |-> c.live])]

-----------------------------------------------------------------------------
(* Websocket callbacks *)

\* faulty variant: an ERROR message is logged and nothing else happens
HandleError_LogOnly(c) == Log(Log(c, "error"), "failure")

\* __on_message, the ERROR branch
HandleError(c) ==
    Log(ConnectedToAlivecodeSetter(Log(c, "error"), FALSE), "failure")

\* faulty variant: inbound data is handed to the handlers only while the
\* logical flag is true
HandleReceive_OnlyWhenLive(c, msg) ==
    IF ~c.live THEN c
    ELSE CASE msg.event = "RECEIVE_ACTION" -> ExecuteProtocol(c, msg.data)
           [] msg.event = "RECEIVE_LISTEN" -> ExecuteListen(c, msg.data)
           [] OTHER -> ExecuteBroadcast(c, msg.data)

\* __on_message, the RECEIVE_ACTION, RECEIVE_LISTEN and RECEIVE_BROADCAST
\* branches
HandleReceive(c, msg) ==
    CASE msg.event = "RECEIVE_ACTION" -> ExecuteProtocol(c, msg.data)
      [] msg.event = "RECEIVE_LISTEN" -> ExecuteListen(c, msg.data)
      [] OTHER -> ExecuteBroadcast(c, msg.data)

ReceiveEvents == {"RECEIVE_ACTION", "RECEIVE_LISTEN", "RECEIVE_BROADCAST"}

\* __on_message
OnMessageBody(c, msg) ==
    CASE msg.event = "CONNECT_SUCCESS" ->
            IF Len(listeners) = 0
            THEN LaunchOnStart(
                    ConnectedToAlivecodeSetter(Log(c, "connected"), TRUE))
            ELSE SendEvent(c, "SUBSCRIBE_LISTENER", [fields |-> SubscribeFields])
      [] msg.event \in ReceiveEvents -> HandleReceive(c, msg)
      [] msg.event = "SUBSCRIBE_LISTENER_SUCCESS" ->
            LET c1 == [c EXCEPT !.lset = @ + 1]
            IN  IF c1.lset = Len(listeners)
                THEN ConnectedToAlivecodeSetter(
                        Log(LaunchOnStart(c1), "connected"), TRUE)
                ELSE c1
      [] msg.event = "ERROR" -> HandleError(c)
      [] msg.event = "PING" -> SendEvent(c, "PONG", NoData)
      [] OTHER -> c

\* faulty variant: the on-end hook runs before the flags are cleared
OnCloseBody_HookFirst(c) ==
    LET c1 == IF on_end.kind = "None" THEN c
              ELSE Call(c, "on_end", on_end.f, [args |-> on_end.args,
                                                kwargs |-> on_end.kwargs])
    IN  Log([c1 EXCEPT !.connected = FALSE, !.live = FALSE, !.ws = "closed"],
            "connection_closed")

\* __on_close
OnCloseBody(c) ==
    LET c1 == Log([c EXCEPT !.connected = FALSE, !.live = FALSE, !.ws = "closed"],
                  "connection_closed")
    IN  IF on_end.kind = "None" THEN c1
        ELSE Call(c1, "on_end", on_end.f, [args |-> on_end.args,
                                           kwargs |-> on_end.kwargs])

\* __on_open
OnOpenBody(c) ==
    SendEvent([c EXCEPT !.connected = TRUE, !.ws = "open"],
              "CONNECT_OBJECT", [id |-> "obj_id"])

\* faulty variant: stop() closes the socket without testing self.__connected
StopBody_Unguarded(c) ==
    IF c.ws # "none" THEN WsClose(c, "stop") ELSE c

\* stop()
StopBody(c) ==
    IF c.connected /\ c.ws # "none" THEN WsClose(c, "stop") ELSE c


-----------------------------------------------------------------------------
(* get_doc *)

\* the response bodies: empty, three JSON texts and a text that is not JSON
Texts == {"", "null", "1", "[1, 2]", "<html>"}

JsonTexts == {"null", "1", "[1, 2]"}

\* the value a JSON text stands for
JsonValue(text) ==
    CASE text = "null" -> None
      [] text = "1" -> [kind |-> "int", value |-> 1]
      [] text = "[1, 2]" -> [kind |-> "list", value |-> <<1, 2>>]

\* json.loads(text), returned
ReturnJsonLoads(c, text) ==
    IF text \in JsonTexts THEN ReturnValue(c, JsonValue(text))
    ELSE Raise(c, "json.JSONDecodeError")

\* Response.json(), evaluated inside the f-string of a log message
ResponseJson(c, res) ==
    IF res.text \in JsonTexts THEN c
    ELSE Raise(c, "requests.JSONDecodeError")

\* the truth value of the `field` argument
Truthy(field) == field.kind = "str" /\ field.s # ""

\* get_doc, after requests.post has returned the response `res`
GetDocBody(c, field, res) ==
    LET what == IF Truthy(field) THEN "field" ELSE "document"
    IN  CASE res.status_code = 201 ->
                IF res.text # "" THEN ReturnJsonLoads(c, res.text)
                ELSE ReturnValue(c, None)
          [] res.status_code = 403 -> Log(c, <<what, "forbidden">>)
          [] res.status_code = 500 -> Log(c, <<what, "server error">>)
          [] OTHER -> Log(ResponseJson(c, res), <<what, "try again">>)

-----------------------------------------------------------------------------
(* Inputs *)

FieldArguments == {None, [kind |-> "str", s |-> ""],
                   [kind |-> "str", s |-> "temperature"],
                   [kind |-> "str", s |-> "humidity"]}

StatusCodes == {200, 201, 400, 403, 404, 500}

Responses == [status_code : StatusCodes, text : Texts]

SeqsUpTo(S, n) == UNION {[1..k -> S] : k \in 0..n}

\* a RECEIVE_ACTION payload is one record or a list of records
ActionPayloads ==
    {[kind |-> "dict", rec |-> r] : r \in Records}
    \cup {[kind |-> "list", items |-> s] : s \in SeqsUpTo(Records, MaxBatch)}

\* a RECEIVE_LISTEN payload maps some fields to values
ListenPayloads == UNION {[K -> ListenValues] : K \in SUBSET Fields}

BroadcastPayloads == {[text |-> "hello"]}

\* the public sends, each a formatter over __send_event
PublicSends ==
    {Msg("UPDATE_COMPONENT", [id |-> "c", value |-> 1]),
     Msg("SEND_BROADCAST", [data |-> [text |-> "hi"]]),
     Msg("UPDATE_DOC", [fields |-> [x |-> 1]]),
     Msg("SEND_ROUTE", [routePath |-> "r", data |-> [x |-> 1]]),
     Msg("SEND_ACTION", [targetId |-> "t", actionId |-> 1, value |-> ""])}

-----------------------------------------------------------------------------
(* The state after AliotObj(name) *)

Init ==
    /\ protocols = {}
    /\ listeners = <<>>
    /\ broadcast_listener = FALSE
    /\ on_start = NoHook
    /\ on_end = NoHook
    /\ connected_to_alivecode = FALSE
    /\ connected = FALSE
    /\ listeners_set = 0
    /\ ws = "none"
    /\ runs = 0
    /\ acks = 0
    /\ launches = 0
    /\ step = NoStep

\* an operation may start when the previous one has returned
Idle == step.op = "idle"

\* registrations are made at setup time, before the first run()
Setup == Idle /\ ws = "none"

\* store the fields an operation wrote, keep its trace
Store(c) ==
    /\ connected' = c.connected
    /\ connected_to_alivecode' = c.live
    /\ ws' = c.ws
    /\ listeners_set' = c.lset
    /\ step' = Trace(c)

Registered(op, data, exc) ==
    step' = [NoStep EXCEPT !.op = op, !.arg = Msg(op, data), !.raised = exc]

-----------------------------------------------------------------------------
(* Registrations *)

\* on_recv(action_id, callback=...)
OnRecv(id) ==
    /\ Setup
    /\ protocols' = protocols \cup {id}
    /\ Registered("on_recv", [id |-> id], NoExc)
    /\ UNCHANGED <<listeners, broadcast_listener, hooks, connected_to_alivecode,
                   connected, listeners_set, ws, history>>

\* listen(fields, callback=...)
Listen(fields) ==
    /\ Setup
    /\ Len(listeners) < MaxListeners
    /\ listeners' = Append(listeners, fields)
    /\ Registered("listen", [fields |-> fields], NoExc)
    /\ UNCHANGED <<protocols, broadcast_listener, hooks, connected_to_alivecode,
                   connected, listeners_set, ws, history>>

\* listen_broadcast(callback=...)
ListenBroadcast ==
    /\ Setup
    /\ broadcast_listener' = TRUE
    /\ Registered("listen_broadcast", NoData, NoExc)
    /\ UNCHANGED <<protocols, listeners, hooks, connected_to_alivecode,
                   connected, listeners_set, ws, history>>

\* what on_start()/on_end() raise on an occupied slot: the ValueError's
\* message reads slot[0].__name__, which a bare function does not support
OccupiedError(slot) ==
    IF slot.kind = "function" THEN "TypeError" ELSE "ValueError"

\* the slot after on_start()/on_end() with hook h
SlotAfterRegister(slot, h) ==
    IF slot.kind = "None" THEN Triple(h) ELSE slot

\* on_start(*args, callback=..., **kwargs)
OnStart(h) ==
    /\ Setup
    /\ on_start' = SlotAfterRegister(on_start, h)
    /\ Registered("on_start", h,
                  IF on_start.kind = "None" THEN NoExc ELSE OccupiedError(on_start))
    /\ UNCHANGED <<registries, on_end, connected_to_alivecode, connected,
                   listeners_set, ws, history>>

\* on_end(*args, callback=..., **kwargs)
OnEnd(h) ==
    /\ Setup
    /\ on_end' = SlotAfterRegister(on_end, h)
    /\ Registered("on_end", h,
                  IF on_end.kind = "None" THEN NoExc ELSE OccupiedError(on_end))
    /\ UNCHANGED <<registries, on_start, connected_to_alivecode, connected,
                   listeners_set, ws, history>>

\* the slot after main_loop(callback=f)
SlotAfterMainLoop(slot, f) == WrapperFunction(f)

\* main_loop(callback=...)
MainLoop(f) ==
    /\ Setup
    /\ on_start' = SlotAfterMainLoop(on_start, f)
    /\ Registered("main_loop", [f |-> f], NoExc)
    /\ UNCHANGED <<registries, on_end, connected_to_alivecode, connected,
                   listeners_set, ws, history>>

-----------------------------------------------------------------------------
(* Public methods *)

\* run(): __setup_ws builds a new WebSocketApp and enters run_forever()
Run ==
    /\ Idle
    /\ ws \in {"none", "closed"}
    /\ runs < MaxRuns
    /\ ws' = "connecting"
    /\ runs' = runs + 1
    /\ acks' = 0
    /\ launches' = 0
    /\ step' = [NoStep EXCEPT !.op = "run", !.arg = Msg("run", NoData)]
    /\ UNCHANGED <<registries, hooks, connected_to_alivecode, connected,
                   listeners_set>>

\* stop()
Stop ==
    /\ Idle
    /\ Store(StopBody(Ctx("stop", Msg("stop", NoData))))
    /\ UNCHANGED <<registries, hooks, history>>

\* get_doc(field): it reads the URL and the id of the object and none of the
\* fields modelled here
GetDoc(field, res) ==
    /\ Idle
    /\ Store(GetDocBody(Ctx("get_doc", Msg("get_doc", [field |-> field, res |-> res])),
                         field, res))
    /\ UNCHANGED <<registries, hooks, history>>

\* update_component, broadcast, update_doc, send_route, send_action
PublicSend(m) ==
    /\ Idle
    /\ Store(SendEvent(Ctx("send", m), m.event, m.data))
    /\ UNCHANGED <<registries, hooks, history>>

-----------------------------------------------------------------------------
(* Websocket callbacks, called by run_forever() *)

OnOpen ==
    /\ Idle
    /\ ws = "connecting"
    /\ Store(OnOpenBody(Ctx("on_open", Msg("on_open", NoData))))
    /\ UNCHANGED <<registries, hooks, history>>

\* messages are delivered while the socket is open
OnMessage(msg) ==
    /\ Idle
    /\ ws = "open"
    /\ msg.event = "SUBSCRIBE_LISTENER_SUCCESS" => listeners_set < MaxAcks
    /\ msg.event = "CONNECT_SUCCESS" => launches < MaxLaunches
    /\ Store(OnMessageBody(Ctx("on_message", msg), msg))
    /\ acks' = IF msg.event = "SUBSCRIBE_LISTENER_SUCCESS" THEN acks + 1 ELSE acks
    /\ launches' = launches + Len(step'.launched)
    /\ UNCHANGED <<registries, hooks, runs>>

\* the connection closes: the peer closed it, it failed, or a local close()
\* completes
OnClose ==
    /\ Idle
    /\ ws \in {"connecting", "open", "closing"}
    /\ Store(OnCloseBody(Ctx("on_close", Msg("on_close", NoData))))
    /\ UNCHANGED <<registries, hooks, history>>

\* the operation returns; its trace is dropped
Return ==
    /\ ~Idle
    /\ step' = NoStep
    /\ UNCHANGED <<registries, hooks, connected_to_alivecode, connected,
                   listeners_set, ws, history>>

Next ==
    \/ \E id \in RegisterableIds : OnRecv(id)
    \/ \E fields \in ListenInputs : Listen(fields)
    \/ ListenBroadcast
    \/ \E h \in HookInputs : OnStart(h)
    \/ \E h \in HookInputs : OnEnd(h)
    \/ \E f \in MainLoopInputs : MainLoop(f)
    \/ Run
    \/ Stop
    \/ \E m \in PublicSends : PublicSend(m)
    \/ OnOpen
    \/ OnMessage(Msg("CONNECT_SUCCESS", NoData))
    \/ OnMessage(Msg("SUBSCRIBE_LISTENER_SUCCESS", NoData))
    \/ \E p \in ActionPayloads : OnMessage(Msg("RECEIVE_ACTION", p))
    \/ \E p \in ListenPayloads : OnMessage(Msg("RECEIVE_LISTEN", p))
    \/ \E p \in BroadcastPayloads : OnMessage(Msg("RECEIVE_BROADCAST", p))
    \/ OnMessage(Msg("ERROR", [text |-> "error"]))
    \/ OnMessage(Msg("PING", NoData))
    \/ OnMessage(Msg("UNKNOWN_EVENT", NoData))
    \/ OnClose
    \/ Return

Spec == Init /\ [][Next]_vars

-----------------------------------------------------------------------------
(* The threads.  The callbacks run on the thread of run_forever(), the     *)
(* on-start hook on a thread of its own, and no lock protects the fields   *)
(* or the socket.  SpecThreads adds to Spec the two places where the hook's *)
(* thread meets a callback half-way: between the two assignments of        *)
(* __on_close, and during a close() that a callback or stop() is making.   *)

InOnClose == "on_close:424"

\* __on_close, line 424: self.__connected = False
OnCloseClearConnected ==
    /\ Idle
    /\ ws \in {"connecting", "open", "closing"}
    /\ connected' = FALSE
    /\ step' = [NoStep EXCEPT !.op = InOnClose, !.arg = Msg("on_close", NoData)]
    /\ UNCHANGED <<registries, hooks, history, connected_to_alivecode,
                   listeners_set, ws>>

\* __on_close, lines 425-427
OnCloseFinish ==
    /\ step.op = InOnClose
    /\ Store(OnCloseBody(Ctx("on_close", Msg("on_close", NoData))))
    /\ UNCHANGED <<registries, hooks, history>>

\* the operation in `step` has called close() on the open socket and has not
\* returned yet
ClosingNow ==
    /\ ~Idle
    /\ \E i \in DOMAIN step.closes : step.closes[i].ws = "open"

\* the on-start hook, on its thread, sends while close() is being made
WorkerSendDuringClose(m, written) ==
    /\ launches >= 1
    /\ ClosingNow
    /\ Store(SendEventDuringClose(Ctx("worker_send", m), m.event, m.data, written))
    /\ UNCHANGED <<registries, hooks, history>>

ReturnFromOperation == Return /\ step.op # InOnClose

NextThreads ==
    \/ \E id \in RegisterableIds : OnRecv(id)
    \/ \E fields \in ListenInputs : Listen(fields)
    \/ ListenBroadcast
    \/ \E h \in HookInputs : OnStart(h)
    \/ \E h \in HookInputs : OnEnd(h)
    \/ \E f \in MainLoopInputs : MainLoop(f)
    \/ Run
    \/ Stop
    \/ \E m \in PublicSends : PublicSend(m)
    \/ \E m \in PublicSends, written \in BOOLEAN : WorkerSendDuringClose(m, written)
    \/ OnOpen
    \/ OnMessage(Msg("CONNECT_SUCCESS", NoData))
    \/ OnMessage(Msg("SUBSCRIBE_LISTENER_SUCCESS", NoData))
    \/ \E p \in ActionPayloads : OnMessage(Msg("RECEIVE_ACTION", p))
    \/ \E p \in ListenPayloads : OnMessage(Msg("RECEIVE_LISTEN", p))
    \/ \E p \in BroadcastPayloads : OnMessage(Msg("RECEIVE_BROADCAST", p))
    \/ OnMessage(Msg("ERROR", [text |-> "error"]))
    \/ OnMessage(Msg("PING", NoData))
    \/ OnMessage(Msg("UNKNOWN_EVENT", NoData))
    \/ OnCloseClearConnected
    \/ OnCloseFinish
    \/ ReturnFromOperation

SpecThreads == Init /\ [][NextThreads]_vars

\* get_doc alone, on every response
NextDoc ==
    \/ \E field \in FieldArguments, res \in Responses : GetDoc(field, res)
    \/ Return

SpecDoc == Init /\ [][NextDoc]_vars

-----------------------------------------------------------------------------
(* Properties *)

\* the operation that just ran is __on_message on a message of this kind
IsMessage(event) == step.op = "on_message" /\ step.arg.event = event

NumListeners == Len(listeners)

AllListenerFields == UNION {Range(listeners[i]) : i \in DOMAIN listeners}

\* the setter calls of a trace that cleared the flag on an open connection
ForcedWhileOpen(t) == Cardinality({i \in DOMAIN t.sets :
                                      ~t.sets[i].value /\ t.sets[i].ws = "open"})

\* the close() calls of a trace made on an open connection
ClosesWhileOpen(t) == Cardinality({i \in DOMAIN t.closes : t.closes[i].ws = "open"})

\* C1: with N >= 1 listeners, CONNECT_SUCCESS sends exactly one
\* SUBSCRIBE_LISTENER whose field list is the sorted, duplicate-free union of
\* the listeners' fields; the logical flag is never true after fewer than N
\* SUBSCRIBE_LISTENER_SUCCESS messages of the connection, and it is true once
\* the N-th has been handled.
C1_SubscribeThenLiveAfterNAcks ==
    NumListeners >= 1 =>
        /\ IsMessage("CONNECT_SUCCESS") =>
              /\ Len(step.sent) = 1
              /\ step.sent[1].event = "SUBSCRIBE_LISTENER"
              /\ LET f == step.sent[1].data.fields
                 IN  /\ \A i, j \in DOMAIN f : i < j => f[i] < f[j]
                     /\ Range(f) = AllListenerFields
        /\ connected_to_alivecode => acks >= NumListeners
        /\ (IsMessage("SUBSCRIBE_LISTENER_SUCCESS") /\ acks = NumListeners)
              => connected_to_alivecode

\* C2: with no listener, CONNECT_SUCCESS sets the logical flag, sends no
\* SUBSCRIBE_LISTENER and starts the on-start hook on one new thread if a
\* hook is registered (none otherwise).
C2_NoListenersLiveAndStartOnce ==
    (IsMessage("CONNECT_SUCCESS") /\ NumListeners = 0) =>
        /\ connected_to_alivecode
        /\ \A i \in DOMAIN step.sent : step.sent[i].event # "SUBSCRIBE_LISTENER"
        /\ Len(step.launched) = IF on_start.kind = "None" THEN 0 ELSE 1

\* C3 as stated: every clearing of the logical flag on an open connection
\* issues a close in the same step, and nothing else closes an open
\* connection.
C3_FlagIsTheOnlyCloser ==
    ClosesWhileOpen(step) = ForcedWhileOpen(step)

\* C3, amended: every clearing of the logical flag on an open connection
\* issues a close in the same step (the socket is no longer open afterwards);
\* the only other operation that closes an open connection is stop(), which
\* closes it without touching the flag.
C3_FlagOrStopCloses ==
    /\ step.op # "stop" => ClosesWhileOpen(step) = ForcedWhileOpen(step)
    /\ step.op = "stop" => step.sets = <<>> /\ ClosesWhileOpen(step) <= 1
    /\ ForcedWhileOpen(step) > 0 => ws # "open"
    /\ ClosesWhileOpen(step) > 0 => ws # "open"

\* an ERROR message cleared the flag and closed the open connection
C3_Witness ==
    /\ IsMessage("ERROR")
    /\ ForcedWhileOpen(step) = 1
    /\ ClosesWhileOpen(step) = 1
    /\ ws = "closing"

\* C4: the close callback marks the object physically and logically
\* disconnected and then runs the registered on-end hook exactly once, with
\* its bound arguments; the hook starts with both flags already false.
C4_CloseClearsFlagsThenRunsOnEnd ==
    step.op = "on_close" =>
        /\ ~connected
        /\ ~connected_to_alivecode
        /\ step.raised = NoExc
        /\ IF on_end.kind = "None" THEN step.calls = <<>>
           ELSE /\ Len(step.calls) = 1
                /\ step.calls[1].kind = "on_end"
                /\ step.calls[1].who = on_end.f
                /\ step.calls[1].arg.args = on_end.args
                /\ ~step.calls[1].connected
                /\ ~step.calls[1].live

\* the connection closed before Live was reached (a listener was still
\* waiting for its acknowledgment) and the on-end hook ran
C4_Witness ==
    /\ step.op = "on_close"
    /\ on_end.kind = "triple"
    /\ NumListeners >= 1
    /\ acks = 0
    /\ Len(step.calls) = 1

\* the records of a RECEIVE_ACTION payload, in payload order
Items(p) == IF p.kind = "list" THEN p.items ELSE <<p.rec>>

WellFormed(r) == {"id", "value"} \subseteq DOMAIN r

\* C5 as stated: a RECEIVE_ACTION record whose id is not registered leaves
\* the logical flag false, with at most one forced disconnect and one close.
C5_UnknownIdClearsFlag ==
    (/\ IsMessage("RECEIVE_ACTION")
     /\ \E r \in Range(Items(step.arg.data)) :
           "id" \in DOMAIN r /\ r.id \notin protocols)
    => /\ ~connected_to_alivecode
       /\ Len(step.sets) <= 1
       /\ Len(step.closes) <= 1

\* C5, amended: a RECEIVE_ACTION record that has both an id and a value key
\* and whose id is not registered leaves the logical flag false; the payload,
\* however many such records it holds, forces the flag to false and closes
\* the connection once if the flag was true, and not at all if it was
\* already false.
C5_WellFormedUnknownIdClearsFlagOnce ==
    [][(/\ IsMessage("RECEIVE_ACTION")'
        /\ \E r \in Range(Items(step'.arg.data)) :
              WellFormed(r) /\ r.id \notin protocols)
       => /\ ~connected_to_alivecode'
          /\ Len(step'.sets) = IF connected_to_alivecode THEN 1 ELSE 0
          /\ Len(step'.closes) = Len(step'.sets)
          /\ \A i \in DOMAIN step'.sets : ~step'.sets[i].value]_vars

\* a batch of two unknown ids, received while Live, disconnected once
C5_Witness ==
    /\ IsMessage("RECEIVE_ACTION")
    /\ step.arg.data.kind = "list"
    /\ step.arg.data.items = <<[id |-> 2, value |-> 7], [id |-> 2, value |-> 7]>>
    /\ Len(step.sets) = 1
    /\ Len(step.closes) = 1
    /\ ~connected_to_alivecode

\* the records of a payload that are well-formed and registered
Dispatched(p) == SelectSeq(Items(p), LAMBDA r : WellFormed(r) /\ r.id \in protocols)

\* C6: every well-formed record with a registered id invokes its handler
\* once with its value, in payload order, and each invocation is followed by
\* one SEND_ACTION_DONE{actionId, value: result}; other records invoke
\* nothing.
C6_EveryRegisteredRecordHandledAndAcked ==
    IsMessage("RECEIVE_ACTION") =>
        LET e == Dispatched(step.arg.data)
        IN  /\ Len(step.calls) = Len(e)
            /\ \A i \in DOMAIN step.calls :
                  /\ step.calls[i].kind = "action"
                  /\ step.calls[i].who = e[i].id
                  /\ step.calls[i].arg = e[i].value
            /\ Len(step.sent) = Len(e)
            /\ \A i \in DOMAIN step.sent :
                  /\ step.sent[i].event = "SEND_ACTION_DONE"
                  /\ step.sent[i].data.actionId = e[i].id
                  /\ step.sent[i].data.value = UserAction(e[i].id, e[i].value)

\* C7: on RECEIVE_LISTEN every listener whose fields meet the payload's keys
\* is invoked once, with the payload restricted to its own fields, and every
\* other listener is not invoked.
C7_ListenersGetTheirFieldsOnly ==
    IsMessage("RECEIVE_LISTEN") =>
        /\ \A n \in DOMAIN step.calls : step.calls[n].kind = "listener"
        /\ \A i \in DOMAIN listeners :
              LET keys == DOMAIN step.arg.data \cap Range(listeners[i])
                  mine == {n \in DOMAIN step.calls : step.calls[n].who = i}
              IN  /\ Cardinality(mine) = IF keys = {} THEN 0 ELSE 1
                  /\ \A n \in mine :
                        /\ DOMAIN step.calls[n].arg = keys
                        /\ \A k \in keys : step.calls[n].arg[k] = step.arg.data[k]

\* a listener of fields 1 and 2 got a payload on fields 1 and 3 and was
\* invoked with field 1 only
C7_Witness ==
    /\ IsMessage("RECEIVE_LISTEN")
    /\ listeners = <<(<<2, 1>>)>>
    /\ DOMAIN step.arg.data = {1, 3}
    /\ Len(step.calls) = 1
    /\ DOMAIN step.calls[1].arg = {1}

\* C8: PING writes exactly one PONG and changes nothing else: both flags,
\* the ack counter, the registries, the hook slots and the socket stay as
\* they were, no handler runs, no thread starts, nothing is raised.
C8_PingOnlyPongs ==
    [][IsMessage("PING")' =>
          /\ step'.sent = <<Msg("PONG", NoData)>>
          /\ step'.calls = <<>> /\ step'.closes = <<>> /\ step'.sets = <<>>
          /\ step'.launched = <<>> /\ step'.raised = NoExc
          /\ UNCHANGED <<connected_to_alivecode, connected, listeners_set, ws,
                         registries, hooks>>]_vars

\* a PING was answered before Live was reached
C8_Witness ==
    /\ IsMessage("PING")
    /\ ~connected_to_alivecode
    /\ step.sent = <<Msg("PONG", NoData)>>

\* C9: a send attempted while the physical connection is not open writes
\* nothing and raises nothing.
C9_SendOnClosedConnectionIsSilent ==
    /\ Len(step.sent) = Cardinality({i \in DOMAIN step.attempts :
                                        step.attempts[i].ws = "open"})
    /\ (\E i \in DOMAIN step.attempts : step.attempts[i].ws # "open")
          => step.raised = NoExc

\* C10: a registration into an occupied on-start (on-end) slot fails with
\* the configuration error and leaves the slot as it was; a registration
\* into one slot never changes the other.
C10_SecondRegistrationFails ==
    [][/\ (step'.op \in {"on_start", "main_loop"} /\ on_start.kind # "None")
             => step'.raised = "ValueError" /\ on_start' = on_start
       /\ (step'.op = "on_end" /\ on_end.kind # "None")
             => step'.raised = "ValueError" /\ on_end' = on_end
       /\ step'.op \in {"on_start", "main_loop"} => on_end' = on_end
       /\ step'.op = "on_end" => on_start' = on_start]_vars

-----------------------------------------------------------------------------
(* The library's guarantee on a local close: once close() has been called,  *)
(* run_forever() leaves its loop and calls on_close, whatever other threads *)
(* do in the meantime; and every operation returns.                         *)

FairSpec == Spec /\ SF_vars(OnClose /\ ws = "closing") /\ WF_vars(Return)

\* both flags are false and the close callback has run
Closed == ws = "closed" /\ ~connected /\ ~connected_to_alivecode

HandshakeCompleted ==
    \/ IsMessage("CONNECT_SUCCESS") /\ NumListeners = 0
    \/ IsMessage("SUBSCRIBE_LISTENER_SUCCESS") /\ NumListeners >= 1
          /\ acks = NumListeners

\* C12: on a second or later run(), the handshake that completes on the new
\* connection makes the object Live and launches the on-start hook once, as
\* on a first connection.  (Stated for slots that can be launched: a slot
\* written by main_loop launches on no connection at all, see C20.)
C12_EveryRunReachesLive ==
    (runs >= 2 /\ HandshakeCompleted /\ on_start.kind # "function") =>
        /\ connected_to_alivecode
        /\ Len(step.launched) = IF on_start.kind = "None" THEN 0 ELSE 1

\* the fields of the object, without the history and the trace
object == <<registries, hooks, connected_to_alivecode, connected,
            listeners_set, ws>>

\* C13: stop() on an object that was never run or whose connection has
\* closed calls no close, runs no hook, sends nothing, sets no flag and
\* changes no field; and stop() changes no field either when the connection
\* is not open because an earlier stop() has already closed it, so that
\* repeated calls leave the object as the first call left it.
C13_StopWhenClosedIsNoOp ==
    /\ [][(step'.op = "stop" /\ ws \in {"none", "closed"}) =>
            /\ step' = [NoStep EXCEPT !.op = "stop",
                                      !.arg = Msg("stop", NoData)]
            /\ UNCHANGED object]_vars
    /\ [][(step'.op = "stop" /\ ws # "open") => UNCHANGED object]_vars

\* stop() has just been called after the connection of a run has closed
C13_Witness ==
    /\ step.op = "stop"
    /\ ws = "closed"
    /\ runs >= 1
    /\ step.closes = <<>>

\* get_doc has just run
IsGetDoc == step.op = "get_doc"

\* C14: get_doc raises on no response; with status 201 it returns the
\* parsed body, or None when the body is empty; with any other status it
\* returns None; status 403 and status 500 each write their own log entry.
C14_GetDocNeverRaises ==
    IsGetDoc =>
        LET res == step.arg.data.res
        IN  /\ step.raised = NoExc
            /\ res.status_code = 201 /\ res.text \in JsonTexts
                  => step.ret = JsonValue(res.text)
            /\ res.status_code = 201 /\ res.text = "" => step.ret = None
            /\ res.status_code # 201 => step.ret = None
            /\ res.status_code = 403 =>
                  Len(step.log) = 1 /\ step.log[1][2] = "forbidden"
            /\ res.status_code = 500 =>
                  Len(step.log) = 1 /\ step.log[1][2] = "server error"

\* C15: whenever the on-start thread is started, the logical flag has
\* already been set to true, so that the hook finds it true however early
\* the new thread begins to run.
C15_FlagSetBeforeThreadStarts ==
    \A i \in DOMAIN step.launched : step.launched[i].live

\* a RECEIVE_ACTION, RECEIVE_LISTEN or RECEIVE_BROADCAST has just been handled
IsReceive == step.op = "on_message" /\ step.arg.event \in ReceiveEvents

\* the listeners a RECEIVE_LISTEN payload concerns
Concerned(p) == {i \in DOMAIN listeners : DOMAIN p \cap Range(listeners[i]) # {}}

\* C16 as stated: a RECEIVE_ACTION, RECEIVE_LISTEN or RECEIVE_BROADCAST
\* received while the logical flag is false invokes no handler and sends no
\* SEND_ACTION_DONE.
C16_NoDispatchBeforeLive ==
    [][(IsReceive' /\ ~connected_to_alivecode) =>
          /\ step'.calls = <<>>
          /\ \A i \in DOMAIN step'.sent : step'.sent[i].event # "SEND_ACTION_DONE"]_vars

\* C16, amended: the three kinds of message are dispatched whether or not
\* the logical flag is true.  Received while the flag is false, a
\* RECEIVE_ACTION invokes the handler of every well-formed record with a
\* registered id and sends one SEND_ACTION_DONE per invocation, a
\* RECEIVE_LISTEN invokes every listener it concerns, and a RECEIVE_BROADCAST
\* invokes the broadcast handler if there is one; the flag stays false.
C16_DispatchDoesNotDependOnLive ==
    [][(IsReceive' /\ ~connected_to_alivecode) =>
          LET p == step'.arg.data
              e == step'.arg.event
          IN  /\ ~connected_to_alivecode'
              /\ e = "RECEIVE_ACTION" =>
                    /\ Len(step'.calls) = Len(Dispatched(p))
                    /\ Len(step'.sent) = Len(step'.calls)
                    /\ \A i \in DOMAIN step'.calls :
                          /\ step'.calls[i].kind = "action"
                          /\ step'.calls[i].who = Dispatched(p)[i].id
                          /\ ~step'.calls[i].live
                          /\ step'.sent[i].event = "SEND_ACTION_DONE"
              /\ e = "RECEIVE_LISTEN" =>
                    /\ Len(step'.calls) = Cardinality(Concerned(p))
                    /\ \A i \in DOMAIN step'.calls :
                          step'.calls[i].kind = "listener"
              /\ e = "RECEIVE_BROADCAST" =>
                    /\ Len(step'.calls) = IF broadcast_listener THEN 1 ELSE 0
                    /\ \A i \in DOMAIN step'.calls :
                          step'.calls[i].kind = "broadcast"]_vars

\* an action was received and acknowledged while the object was waiting for
\* the acknowledgment of its subscription
C16_Witness ==
    /\ IsMessage("RECEIVE_ACTION")
    /\ NumListeners >= 1
    /\ acks < NumListeners
    /\ ~connected_to_alivecode
    /\ Len(step.calls) = 1
    /\ ~step.calls[1].live
    /\ Len(step.sent) = 1
    /\ step.sent[1].event = "SEND_ACTION_DONE"

\* C19: on one connection the on-start thread is started at most once,
\* whatever messages arrive.
C19_OneLaunchPerRun == launches <= 1

\* C17: a send made after a local close of the connection has been issued
\* (the socket is closing: the flag setter or stop() has called close() and
\* the close callback has not run) writes nothing to the connection.
C17_NoWriteAfterLocalClose ==
    \A i \in DOMAIN step.attempts :
        step.attempts[i].ws = "closing" => ~step.attempts[i].wrote

\* C18: in every state, those between the statements of a callback
\* included, the logical flag is true only if the physical flag is true.
C18_LiveImpliesConnected == connected_to_alivecode => connected

\* the message just handled reached the statement that starts the on-start
\* thread
LaunchAttempted ==
    \/ IsMessage("CONNECT_SUCCESS") /\ NumListeners = 0
    \/ IsMessage("SUBSCRIBE_LISTENER_SUCCESS") /\ listeners_set = NumListeners

=============================================================================
